---- MODULE Spec2Model ----
(***************************************************************************)
(* Model of the ASR label-dataset factories (audio_to_label_dataset.py)    *)
(* and of the encoder-decoder translation model (mt_enc_dec_model.py).     *)
(*                                                                         *)
(* The program is a single-threaded object that a caller drives with a     *)
(* sequence of calls.  `op`, `args`, `ret` and `exc` hold the last call,   *)
(* its arguments, its return value and the exception it raised.  `calls`   *)
(* lists the sub-module calls the last handler made, in order, and         *)
(* `decoded` the id rows that handler handed to ids_to_text.  `generator`  *)
(* is what the trained network generates for each source row: in eval mode *)
(* (no dropout, no gradient) beam search is a function of its input.       *)
(***************************************************************************)
EXTENDS Integers, Sequences, FiniteSets, TLC

\* ----------------------------------------------------------------- bounds
MaxId == 2          \* token ids range over 0..MaxId
MaxBatch == 2       \* rows in a batch given to forward
BeamLen == 1        \* length of a generated row
MaxTexts == 2       \* strings in one translate() call
MaxRank == 1        \* global_rank ranges over 0..MaxRank
MaxShuffle == 2     \* shuffle_n ranges over 1..MaxShuffle

\* Python's None; an optional tensor is <<>> (None) or <<value>>
None == "None"
NoTensor == <<>>
Some(x) == <<x>>

VARIABLES training, vocab_size, unk_id, generator, op, args, ret, exc, calls,
          decoded, pc, res, mode

vars == <<training, vocab_size, unk_id, generator, op, args, ret, exc, calls,
          decoded, pc, res, mode>>

mtLocals == <<decoded, pc, res, mode>>
tokenizer == <<vocab_size, unk_id>>

\* =====================================================================
\* audio_to_label_dataset.py
\* =====================================================================

\* config.get(key, default) of a dict
Get(config, key, default) == IF key \in DOMAIN config THEN config[key] ELSE default

\* config[key] raises KeyError when the key is absent
HasKeys(config, keys) == keys \subseteq DOMAIN config

Strategies == {"scatter", "replicate"}
CfgKeys == {"tarred_audio_filepaths", "manifest_filepath", "labels",
            "tarred_shard_strategy"}

FullConfig(strategy) ==
    [tarred_audio_filepaths |-> "audio_0.tar",
     manifest_filepath |-> "manifest.json",
     labels |-> <<"yes", "no">>,
     tarred_shard_strategy |-> strategy]

\* the dicts a caller may pass: any subset of the keys
Configs == { [k \in S |-> FullConfig(st)[k]] : S \in SUBSET CfgKeys, st \in Strategies }

Augmentors == {None, "augmentor"}
Featurizer == "featurizer"

\* keyword arguments of AudioToClassificationLabelDataset(...)
ClassificationKwargs(featurizer, config) ==
    [manifest_filepath |-> config["manifest_filepath"],
     labels |-> config["labels"],
     featurizer |-> featurizer,
     max_duration |-> Get(config, "max_duration", None),
     min_duration |-> Get(config, "min_duration", None),
     trim |-> Get(config, "trim_silence", TRUE),
     load_audio |-> Get(config, "load_audio", TRUE)]

\* keyword arguments of AudioToSpeechLabelDataSet(...)
SpeechKwargs(featurizer, config) ==
    [manifest_filepath |-> config["manifest_filepath"],
     labels |-> config["labels"],
     featurizer |-> featurizer,
     max_duration |-> Get(config, "max_duration", None),
     min_duration |-> Get(config, "min_duration", None),
     trim |-> Get(config, "trim_silence", TRUE),
     load_audio |-> Get(config, "load_audio", TRUE),
     time_length |-> Get(config, "time_length", "0.31"),
     shift_length |-> Get(config, "shift_length", "0.01"),
     normalize_audio |-> Get(config, "normalize_audio", FALSE)]

\* mutant: global_rank and world_size passed in each other's place, and the
\* shard strategy not read from the config
TarredClassificationKwargsSwapped(featurizer, config, shuffle_n, global_rank, world_size) ==
    [audio_tar_filepaths |-> config["tarred_audio_filepaths"],
     manifest_filepath |-> config["manifest_filepath"],
     labels |-> config["labels"],
     featurizer |-> featurizer,
     max_duration |-> Get(config, "max_duration", None),
     min_duration |-> Get(config, "min_duration", None),
     trim |-> Get(config, "trim_silence", TRUE),
     shard_strategy |-> "scatter",
     global_rank |-> world_size,
     world_size |-> global_rank]

\* keyword arguments of TarredAudioToClassificationLabelDataset(...)
TarredClassificationKwargs(featurizer, config, shuffle_n, global_rank, world_size) ==
    [audio_tar_filepaths |-> config["tarred_audio_filepaths"],
     manifest_filepath |-> config["manifest_filepath"],
     labels |-> config["labels"],
     featurizer |-> featurizer,
     max_duration |-> Get(config, "max_duration", None),
     min_duration |-> Get(config, "min_duration", None),
     trim |-> Get(config, "trim_silence", TRUE),
     shard_strategy |-> Get(config, "tarred_shard_strategy", "scatter"),
     global_rank |-> global_rank,
     world_size |-> world_size]

\* keyword arguments of TarredAudioToSpeechLabelDataSet(...)
TarredSpeechKwargs(featurizer, config, shuffle_n, global_rank, world_size) ==
    [audio_tar_filepaths |-> config["tarred_audio_filepaths"],
     manifest_filepath |-> config["manifest_filepath"],
     labels |-> config["labels"],
     featurizer |-> featurizer,
     max_duration |-> Get(config, "max_duration", None),
     min_duration |-> Get(config, "min_duration", None),
     trim |-> Get(config, "trim_silence", TRUE),
     load_audio |-> Get(config, "load_audio", TRUE),
     time_length |-> Get(config, "time_length", "0.31"),
     shift_length |-> Get(config, "shift_length", "0.01"),
     normalize_audio |-> Get(config, "normalize_audio", FALSE),
     shard_strategy |-> Get(config, "tarred_shard_strategy", "scatter"),
     global_rank |-> global_rank,
     world_size |-> world_size]

\* the keys each factory reads with config[...]
PlainRequired == {"manifest_filepath", "labels"}
TarredRequired == {"tarred_audio_filepaths", "manifest_filepath", "labels"}

\* the effect of a factory call: it returns the dataset (its class and the
\* keyword arguments it was constructed with), or config[...] raises KeyError
Factory(name, a, required, cls, kwargs) ==
    /\ op' = name
    /\ args' = a
    /\ calls' = <<>>
    /\ IF HasKeys(a.config, required)
         THEN /\ exc' = None
              /\ ret' = [cls |-> cls, kwargs |-> kwargs]
         ELSE /\ exc' = "KeyError"
              /\ ret' = None
    /\ UNCHANGED <<training, tokenizer, generator, mtLocals>>

get_classification_label_dataset ==
    /\ pc = "idle"
    /\ \E config \in Configs, augmentor \in Augmentors :
         Factory("get_classification_label_dataset",
                 [featurizer |-> Featurizer, config |-> config, augmentor |-> augmentor],
                 PlainRequired,
                 "AudioToClassificationLabelDataset",
                 ClassificationKwargs(Featurizer, config))

get_speech_label_dataset ==
    /\ pc = "idle"
    /\ \E config \in Configs, augmentor \in Augmentors :
         Factory("get_speech_label_dataset",
                 [featurizer |-> Featurizer, config |-> config, augmentor |-> augmentor],
                 PlainRequired,
                 "AudioToSpeechLabelDataSet",
                 SpeechKwargs(Featurizer, config))

get_tarred_classification_label_dataset ==
    /\ pc = "idle"
    /\ \E config \in Configs, augmentor \in Augmentors, shuffle_n \in 1..MaxShuffle,
          global_rank \in 0..MaxRank, world_size \in 1..(MaxRank + 1) :
         Factory("get_tarred_classification_label_dataset",
                 [featurizer |-> Featurizer, config |-> config, shuffle_n |-> shuffle_n,
                  global_rank |-> global_rank, world_size |-> world_size,
                  augmentor |-> augmentor],
                 TarredRequired,
                 "TarredAudioToClassificationLabelDataset",
                 TarredClassificationKwargs(Featurizer, config, shuffle_n, global_rank, world_size))

get_tarred_speech_label_dataset ==
    /\ pc = "idle"
    /\ \E config \in Configs, augmentor \in Augmentors, shuffle_n \in 1..MaxShuffle,
          global_rank \in 0..MaxRank, world_size \in 1..(MaxRank + 1) :
         Factory("get_tarred_speech_label_dataset",
                 [featurizer |-> Featurizer, config |-> config, shuffle_n |-> shuffle_n,
                  global_rank |-> global_rank, world_size |-> world_size,
                  augmentor |-> augmentor],
                 TarredRequired,
                 "TarredAudioToSpeechLabelDataSet",
                 TarredSpeechKwargs(Featurizer, config, shuffle_n, global_rank, world_size))

\* =====================================================================
\* mt_enc_dec_model.py
\* =====================================================================

Ids == 0..MaxId
\* a generated row, and a batch of n rows
Rows == [1..BeamLen -> Ids]
Batches(n) == [1..n -> Rows]

\* encoder tokenizer: a sentence is the sequence of its words
EncVocab == <<"<pad>", "<s>", "</s>", "hello", "world">>
EncId(word) == (CHOOSE i \in DOMAIN EncVocab : EncVocab[i] = word) - 1
EncBos == EncId("<s>")
EncEos == EncId("</s>")
TextToIds(txt) == [i \in DOMAIN txt |-> EncId(txt[i])]

\* the strings a caller may pass to translate
Sentences == {<<"hello">>, <<"hello", "world">>}
RECURSIVE SeqsUpTo(_, _)
SeqsUpTo(S, n) ==
    IF n = 0 THEN {<<>>}
    ELSE LET shorter == SeqsUpTo(S, n - 1)
         IN  shorter \cup {Append(q, x) : q \in {r \in shorter : Len(r) = n - 1}, x \in S}
TextLists == SeqsUpTo(Sentences, MaxTexts)

\* the source ids of one sentence, as a batch of one row
SourceIds(txt) == <<(<<EncBos>> \o TextToIds(txt)) \o <<EncEos>>>>

\* the source rows a caller may pass to forward
SourceRows == {SourceIds(txt)[1] : txt \in Sentences}

\* the src tensors of n rows: the rows of a tensor have one length
SourceBatches(n) == {b \in [1..n -> SourceRows] : \A r \in 1..n : Len(b[r]) = Len(b[1])}

\* beam_search(encoder_hidden_states, encoder_input_mask) in eval mode: one
\* generated row per source row
BeamSearch(gen, src) == [r \in DOMAIN src |-> gen[src[r]]]

\* decoder tokenizer: ids below vocab_size are in the table
DecVocab == <<"hallo", ",", "welt", "!", "und", "ja">>
Punctuation == {",", "!"}
IdsToText(ids, vsize) ==
    [i \in DOMAIN ids |-> IF ids[i] < vsize THEN DecVocab[ids[i] + 1] ELSE "<oov>"]

\* str.split(): the words of the string
Split(translation) == SelectSeq(translation, LAMBDA w : w # "")

\* MosesDetokenizer.detokenize(words): the pieces of the joined string; a
\* punctuation mark is glued to the word before it
RECURSIVE Detokenize(_)
Detokenize(words) ==
    IF words = <<>> THEN <<>>
    ELSE LET n == Len(words)
             w == words[n]
             before == Detokenize(SubSeq(words, 1, n - 1))
         IN  IF n = 1 \/ w \in Punctuation
               THEN Append(before, w)
               ELSE before \o <<" ", w>>

\* mutant: > in place of >=
filter_predicted_ids_gt(ids, vsize, unk) ==
    [r \in DOMAIN ids |->
        [c \in DOMAIN ids[r] |-> IF ids[r][c] > vsize THEN unk ELSE ids[r][c]]]

\* ids[ids >= vocab_size] = unk_id, on a batch of rows
filter_predicted_ids(ids, vsize, unk) ==
    [r \in DOMAIN ids |->
        [c \in DOMAIN ids[r] |-> IF ids[r][c] >= vsize THEN unk ELSE ids[r][c]]]

\* the sub-module calls of forward, in order
ForwardCalls(tgt, train) ==
    <<"encoder_embedding", "encoder">>
    \o (IF tgt # NoTensor THEN <<"decoder_embedding", "decoder", "log_softmax">> ELSE <<>>)
    \o (IF ~train THEN <<"beam_search", "filter_predicted_ids">> ELSE <<>>)

ForwardLogProbs(tgt) ==
    IF tgt # NoTensor THEN Some("log_probs") ELSE NoTensor

\* mutant: the beam results are returned in training mode as well
ForwardBeamResultsAlways(train, raw, vsize, unk) ==
    Some(filter_predicted_ids(raw, vsize, unk))

ForwardBeamResults(train, raw, vsize, unk) ==
    IF ~train THEN Some(filter_predicted_ids(raw, vsize, unk)) ELSE NoTensor

\* forward(src, src_mask, tgt, tgt_mask)
forward ==
    /\ pc = "idle"
    /\ \E n \in 1..MaxBatch :
         \E src \in SourceBatches(n), tgt \in {NoTensor, Some("tgt")} :
            /\ op' = "forward"
            /\ args' = [src |-> src, tgt |-> tgt]
            /\ calls' = ForwardCalls(tgt, training)
            /\ ret' = [log_probs |-> ForwardLogProbs(tgt),
                       beam_results |-> ForwardBeamResults(training, BeamSearch(generator, src),
                                                           vocab_size, unk_id)]
            /\ exc' = None
            /\ decoded' = <<>>
    /\ UNCHANGED <<training, tokenizer, generator, pc, res, mode>>

\* torch.nn.Module.train(mode) / eval()
train ==
    /\ pc = "idle"
    /\ \E m \in BOOLEAN :
         /\ training' = m
         /\ op' = "train"
         /\ args' = [mode |-> m]
    /\ ret' = None
    /\ exc' = None
    /\ calls' = <<>>
    /\ decoded' = <<>>
    /\ UNCHANGED <<tokenizer, generator, pc, res, mode>>

\* translate(text), up to the loop: mode = self.training; self.eval(); res = []
TranslateBegin ==
    /\ pc = "idle"
    /\ \E text \in TextLists :
         args' = [text |-> text]
    /\ op' = "translate"
    /\ mode' = training
    /\ training' = FALSE
    /\ res' = <<>>
    /\ pc' = "loop"
    /\ ret' = None
    /\ exc' = None
    /\ calls' = <<"eval">>
    /\ decoded' = <<>>
    /\ UNCHANGED <<tokenizer, generator>>

\* the string appended for one sentence whose filtered beam output is ids
Translation(ids, vsize) == Detokenize(Split(IdsToText(ids[1], vsize)))

\* mutant: the new translation is put at the front of res
ResPrepend(r, s) == <<s>> \o r

\* res.append(...)
ResAppend(r, s) == Append(r, s)

\* one iteration of the loop over text
TranslateStep ==
    /\ pc = "loop"
    /\ Len(res) < Len(args.text)
    /\ LET txt == args.text[Len(res) + 1]
           src == SourceIds(txt)
           beam_results == filter_predicted_ids(BeamSearch(generator, src), vocab_size, unk_id)
       IN  /\ decoded' = Append(decoded, beam_results[1])
           /\ res' = ResAppend(res, Translation(beam_results, vocab_size))
           /\ calls' = calls \o <<"encoder_embedding", "encoder", "beam_search",
                                  "filter_predicted_ids", "ids_to_text">>
    /\ UNCHANGED <<training, tokenizer, generator, op, args, ret, exc, pc, mode>>

\* a step of the loop body raises: the finally clause restores the mode and
\* the exception leaves translate (the locals res and mode go out of scope)
TranslateRaise ==
    /\ pc = "loop"
    /\ Len(res) < Len(args.text)
    /\ training' = mode
    /\ exc' = "Exception"
    /\ ret' = None
    /\ pc' = "idle"
    /\ calls' = Append(calls, "train")
    /\ res' = <<>>
    /\ mode' = TRUE
    /\ UNCHANGED <<tokenizer, generator, op, args, decoded>>

\* the loop is over: finally self.train(mode=mode); return res (the locals
\* res and mode go out of scope)
TranslateReturn ==
    /\ pc = "loop"
    /\ Len(res) = Len(args.text)
    /\ training' = mode
    /\ ret' = res
    /\ exc' = None
    /\ pc' = "idle"
    /\ calls' = Append(calls, "train")
    /\ res' = <<>>
    /\ mode' = TRUE
    /\ UNCHANGED <<tokenizer, generator, op, args, decoded>>

\* =====================================================================
\* specifications
\* =====================================================================

\* the state after MTEncDecModel.__init__: a torch module starts in training
\* mode; the decoder tokenizer is whatever the configuration names and the
\* generator whatever the weights make it
Init ==
    /\ training = TRUE
    /\ vocab_size \in (MaxId - 1)..MaxId
    /\ unk_id \in Ids
    /\ generator \in [SourceRows -> Rows]
    /\ op = "none"
    /\ args = None
    /\ ret = None
    /\ exc = None
    /\ calls = <<>>
    /\ decoded = <<>>
    /\ pc = "idle"
    /\ res = <<>>
    /\ mode = TRUE

Next ==
    \/ forward
    \/ train
    \/ TranslateBegin
    \/ TranslateStep
    \/ TranslateRaise
    \/ TranslateReturn

Spec == Init /\ [][Next]_vars

\* the dataset factories are module-level functions; no model takes part
InitData ==
    /\ training = TRUE
    /\ vocab_size = MaxId
    /\ unk_id = 0
    /\ generator = [s \in SourceRows |-> [c \in 1..BeamLen |-> 0]]
    /\ op = "none"
    /\ args = None
    /\ ret = None
    /\ exc = None
    /\ calls = <<>>
    /\ decoded = <<>>
    /\ pc = "idle"
    /\ res = <<>>
    /\ mode = TRUE

NextData ==
    \/ get_classification_label_dataset
    \/ get_speech_label_dataset
    \/ get_tarred_classification_label_dataset
    \/ get_tarred_speech_label_dataset

SpecData == InitData /\ [][NextData]_vars

\* =====================================================================
\* properties
\* =====================================================================

TranslateReturned == op = "translate" /\ pc = "idle" /\ exc = None
ForwardReturned == op = "forward"
PlainFactories == {"get_classification_label_dataset", "get_speech_label_dataset"}
TarredFactories == {"get_tarred_classification_label_dataset",
                    "get_tarred_speech_label_dataset"}
FactoryReturned(names) == op \in names /\ exc = None

\* what the claims expect of filter_predicted_ids, element by element
Filtered(raw, out, vsize, unk) ==
    /\ DOMAIN out = DOMAIN raw
    /\ \A r \in DOMAIN raw :
         /\ DOMAIN out[r] = DOMAIN raw[r]
         /\ \A c \in DOMAIN raw[r] :
              out[r][c] = IF raw[r][c] >= vsize THEN unk ELSE raw[r][c]

AllBelow(ids, vsize) == \A r \in DOMAIN ids : \A c \in DOMAIN ids[r] : ids[r][c] < vsize

\* C1: when translate returns, the result has one entry per input string, in
\* the order of the inputs: entry i is the detokenized text of the filtered
\* ids generated for text[i]; an empty input list gives an empty result.
C1_TranslateOnePerInput ==
    TranslateReturned =>
        /\ Len(ret) = Len(args.text)
        /\ \A i \in 1..Len(args.text) :
             \E out \in Batches(1) :
                /\ Filtered(BeamSearch(generator, SourceIds(args.text[i])), out,
                            vocab_size, unk_id)
                /\ ret[i] = Detokenize(Split(IdsToText(out[1], vocab_size)))
        /\ (args.text = <<>> => ret = <<>>)

\* C1 witness: translate returned two different translations for two
\* different input strings
C1_Witness ==
    /\ TranslateReturned
    /\ Len(args.text) = 2
    /\ args.text[1] # args.text[2]
    /\ ret[1] # ret[2]

\* C2: a factory that is given a non-None augmentor builds the dataset with
\* that augmentor.
C2_AugmentorUsed ==
    (FactoryReturned(PlainFactories \cup TarredFactories) /\ args.augmentor # None) =>
        /\ "augmentor" \in DOMAIN ret.kwargs
        /\ ret.kwargs["augmentor"] = args.augmentor

\* C3: the shuffle_n given to a tarred factory is the shuffle look-ahead of
\* the dataset it builds.
C3_ShuffleUsed ==
    FactoryReturned(TarredFactories) =>
        /\ "shuffle_n" \in DOMAIN ret.kwargs
        /\ ret.kwargs["shuffle_n"] = args.shuffle_n

\* C4: a tarred factory passes global_rank and world_size unchanged, uses
\* config['tarred_shard_strategy'] when present and 'scatter' when absent,
\* and raises KeyError (building nothing) when 'tarred_audio_filepaths',
\* 'manifest_filepath' or 'labels' is missing from the config.
C4_TarredSharding ==
    op \in TarredFactories =>
        IF TarredRequired \subseteq DOMAIN args.config
          THEN /\ exc = None
               /\ ret.kwargs.global_rank = args.global_rank
               /\ ret.kwargs.world_size = args.world_size
               /\ ret.kwargs.shard_strategy =
                    (IF "tarred_shard_strategy" \in DOMAIN args.config
                       THEN args.config["tarred_shard_strategy"]
                       ELSE "scatter")
          ELSE /\ exc = "KeyError"
               /\ ret = None

\* C4 witness: a tarred dataset built with a configured, non-default shard
\* strategy and with a rank that differs from the world size
C4_Witness ==
    /\ FactoryReturned(TarredFactories)
    /\ "tarred_shard_strategy" \in DOMAIN args.config
    /\ ret.kwargs.shard_strategy = "replicate"
    /\ args.global_rank = 0
    /\ args.world_size = 2

\* C5: forward returns (log_probs, beam_results) with log_probs None exactly
\* when tgt is None and beam_results None exactly when the model is in
\* training mode; beam_search, directly followed by filter_predicted_ids,
\* runs exactly when the model is not in training mode, whatever tgt is.
C5_ForwardOutputs ==
    ForwardReturned =>
        /\ (ret.log_probs = NoTensor) <=> (args.tgt = NoTensor)
        /\ (ret.beam_results = NoTensor) <=> training
        /\ (\E i \in DOMAIN calls : calls[i] = "beam_search") <=> ~training
        /\ \A i \in DOMAIN calls :
             calls[i] = "beam_search" =>
                 /\ i + 1 \in DOMAIN calls
                 /\ calls[i + 1] = "filter_predicted_ids"
        /\ \A i \in DOMAIN calls :
             calls[i] = "filter_predicted_ids" => calls[i - 1] = "beam_search"

\* C5 witness: forward in eval mode without a target: no log_probs, but beam
\* results
C5_Witness ==
    /\ ForwardReturned
    /\ ~training
    /\ args.tgt = NoTensor
    /\ ret.log_probs = NoTensor
    /\ ret.beam_results # NoTensor

\* C6: filter_predicted_ids replaces every id >= vocab_size by unk_id and
\* leaves the other ids and the shape alone; when unk_id < vocab_size every
\* id of the result is below vocab_size; filtering the result again changes
\* nothing.  What forward returns in eval mode, and every row translate hands
\* to ids_to_text, is the filtered beam-search output.
C6_FilterPredictedIds ==
    /\ (ForwardReturned /\ ~training) =>
          /\ ret.beam_results # NoTensor
          /\ LET raw == BeamSearch(generator, args.src)
                 out == ret.beam_results[1]
             IN  /\ Filtered(raw, out, vocab_size, unk_id)
                 /\ (unk_id < vocab_size => AllBelow(out, vocab_size))
                 /\ filter_predicted_ids(out, vocab_size, unk_id) = out
    /\ op = "translate" =>
          /\ Len(decoded) = Len(res) \/ pc = "idle"
          /\ Len(decoded) <= Len(args.text)
          /\ \A i \in DOMAIN decoded :
               LET raw == BeamSearch(generator, SourceIds(args.text[i]))
                   out == <<decoded[i]>>
               IN  /\ Filtered(raw, out, vocab_size, unk_id)
                   /\ (unk_id < vocab_size => AllBelow(out, vocab_size))
                   /\ filter_predicted_ids(out, vocab_size, unk_id) = out

\* C6 witness: in eval mode forward returned a batch in which an
\* out-of-vocabulary id was replaced by an in-vocabulary unk_id
C6_Witness ==
    /\ ForwardReturned
    /\ ~training
    /\ unk_id < vocab_size
    /\ \E r \in DOMAIN args.src : \E c \in 1..BeamLen :
         /\ generator[args.src[r]][c] >= vocab_size
         /\ ret.beam_results[1][r][c] = unk_id
====
